---- MODULE Spec2Model ----
(***************************************************************************)
(* Model of the shared quantum state logic (quantum.js): the gate table,   *)
(* applyGate, buildStepStates, measureState and buildColumnData.           *)
(*                                                                         *)
(* JavaScript values are modelled as strings.  null and undefined are the  *)
(* two marker strings below; a function object is the string               *)
(* "function <name>".                                                      *)
(***************************************************************************)
EXTENDS Integers, Sequences, FiniteSets, TLC

null == "null"
undefined == "undefined"

\* Bounds of the checked input spaces.
MaxLen == 4               \* longest gate sequence handed to buildStepStates
MaxApplications == 2      \* applyGate calls with the same gate on one value
MaxMeasurements == 2      \* measureState / buildColumnData calls per run
MaxText == 4              \* longest typed gate string (the documented examples besides)
MaxEdits == 2             \* drop, remove and toggle actions per session of the circuit view
MaxPending == 1           \* detector timeouts pending at once in the circuit view
RandomResolution == 5     \* Math.random() takes the values k / RandomResolution
MaxFrames == 3            \* animation frames after the first until the auto-play progress is 1
MaxSeed == 2              \* repeat cycles counted by measureSeed in the fixture view

\* The five documented states and the values callers may hand in besides.
States == {"ZERO", "ONE", "PLUS", "MINUS", "DECOHERED"}
StateInputs == States \cup {"BOGUS", "constructor", undefined}
GateInputs == {"X", "H", "Z", "NOISE", null, "", "Q", "constructor"}
GateSlotInputs == {"X", "H", "Z", "NOISE", null, "Q"}
InitialStateInputs == {"ZERO", "ONE", "PLUS", "BOGUS"}
RandomValues == 0 .. (RandomResolution - 1)

\* !v : the falsy values among the modelled ones.
Falsy(v) == v \in {null, undefined, ""}

\* Members every object literal inherits from Object.prototype, and the
\* members every function object inherits from Function.prototype.
ObjectPrototype ==
    [constructor |-> "function Object", toString |-> "function toString",
     hasOwnProperty |-> "function hasOwnProperty", valueOf |-> "function valueOf"]

FunctionPrototype ==
    [constructor |-> "function Function", toString |-> "function toString",
     hasOwnProperty |-> "function hasOwnProperty", valueOf |-> "function valueOf",
     call |-> "function call", apply |-> "function apply", bind |-> "function bind"]

gateTable_HTypo ==
    [X |-> [ZERO |-> "ONE", ONE |-> "ZERO", PLUS |-> "PLUS", MINUS |-> "MINUS"],
     H |-> [ZERO |-> "PLUS", ONE |-> "MINUS", PLUS |-> "ONE", MINUS |-> "ZERO"],
     Z |-> [ZERO |-> "ZERO", ONE |-> "ONE", PLUS |-> "MINUS", MINUS |-> "PLUS"],
     NOISE |-> [ZERO |-> "DECOHERED", ONE |-> "DECOHERED", PLUS |-> "DECOHERED",
                MINUS |-> "DECOHERED"]]

gateTable_NoiseGap ==
    [X |-> [ZERO |-> "ONE", ONE |-> "ZERO", PLUS |-> "PLUS", MINUS |-> "MINUS"],
     H |-> [ZERO |-> "PLUS", ONE |-> "MINUS", PLUS |-> "ZERO", MINUS |-> "ONE"],
     Z |-> [ZERO |-> "ZERO", ONE |-> "ONE", PLUS |-> "MINUS", MINUS |-> "PLUS"],
     NOISE |-> [ZERO |-> "DECOHERED", ONE |-> "DECOHERED", PLUS |-> "DECOHERED"]]

gateTable_ZAsX ==
    [X |-> [ZERO |-> "ONE", ONE |-> "ZERO", PLUS |-> "PLUS", MINUS |-> "MINUS"],
     H |-> [ZERO |-> "PLUS", ONE |-> "MINUS", PLUS |-> "ZERO", MINUS |-> "ONE"],
     Z |-> [ZERO |-> "ONE", ONE |-> "ZERO", PLUS |-> "PLUS", MINUS |-> "MINUS"],
     NOISE |-> [ZERO |-> "DECOHERED", ONE |-> "DECOHERED", PLUS |-> "DECOHERED",
                MINUS |-> "DECOHERED"]]

gateTable ==
    [X |-> [ZERO |-> "ONE", ONE |-> "ZERO", PLUS |-> "PLUS", MINUS |-> "MINUS"],
     H |-> [ZERO |-> "PLUS", ONE |-> "MINUS", PLUS |-> "ZERO", MINUS |-> "ONE"],
     Z |-> [ZERO |-> "ZERO", ONE |-> "ONE", PLUS |-> "MINUS", MINUS |-> "PLUS"],
     NOISE |-> [ZERO |-> "DECOHERED", ONE |-> "DECOHERED", PLUS |-> "DECOHERED",
                MINUS |-> "DECOHERED"]]

\* gateTable[gate]?.[state] : own members first, then the inherited ones;
\* undefined when there is none, or when gateTable[gate] is undefined.
gateTableLookup(gate, state) ==
    IF gate \in DOMAIN gateTable
    THEN IF state \in DOMAIN gateTable[gate] THEN gateTable[gate][state]
         ELSE IF state \in DOMAIN ObjectPrototype THEN ObjectPrototype[state]
         ELSE undefined
    ELSE IF gate \in DOMAIN ObjectPrototype
         THEN IF state \in DOMAIN FunctionPrototype THEN FunctionPrototype[state]
              ELSE undefined
         ELSE undefined

applyGate_DefaultZero(state, gate) ==
    IF Falsy(gate) THEN state
    ELSE LET found == gateTableLookup(gate, state)
         IN  IF found \in {null, undefined} THEN "ZERO" ELSE found

applyGate(state, gate) ==
    IF Falsy(gate) THEN state
    ELSE IF state = "DECOHERED" THEN "DECOHERED"
    ELSE LET found == gateTableLookup(gate, state)
         IN  IF found \in {null, undefined} THEN state ELSE found

RECURSIVE buildStepStatesLoop_FromSeed(_, _, _)
buildStepStatesLoop_FromSeed(states, current, gates) ==
    IF gates = <<>> THEN states
    ELSE LET next == applyGate(states[1], Head(gates))
         IN  buildStepStatesLoop_FromSeed(Append(states, next), next, Tail(gates))

RECURSIVE buildStepStatesLoop(_, _, _)
buildStepStatesLoop(states, current, gates) ==
    IF gates = <<>> THEN states
    ELSE LET next == applyGate(current, Head(gates))
         IN  buildStepStatesLoop(Append(states, next), next, Tail(gates))

buildStepStates_ExtraPush(initialState, gates) ==
    LET first == IF initialState = "ONE" THEN "ONE" ELSE "ZERO"
        states == buildStepStatesLoop(<<first>>, first, gates)
    IN  Append(states, states[Len(states)])

buildStepStates_RawSeed(initialState, gates) ==
    buildStepStatesLoop(<<initialState>>, initialState, gates)

buildStepStates(initialState, gates) ==
    LET first == IF initialState = "ONE" THEN "ONE" ELSE "ZERO"
    IN  buildStepStatesLoop(<<first>>, first, gates)

\* measureState(state) with `random` the value the next Math.random() call
\* would return (as a multiple of 1 / RandomResolution).  `drawn` is the
\* sequence of values the call took from the generator.
measureState_Swapped(state, random) ==
    CASE state = "ZERO" -> [outcome |-> "red", drawn |-> <<>>]
      [] state = "ONE" -> [outcome |-> "blue", drawn |-> <<>>]
      [] state \in {"PLUS", "MINUS"} ->
            [outcome |-> IF 2 * random < RandomResolution THEN "blue" ELSE "red",
             drawn |-> <<random>>]
      [] state = "DECOHERED" -> [outcome |-> "yellow", drawn |-> <<>>]
      [] OTHER -> [outcome |-> "blue", drawn |-> <<>>]

measureState_DrawsAlways(state, random) ==
    CASE state = "ZERO" -> [outcome |-> "blue", drawn |-> <<random>>]
      [] state = "ONE" -> [outcome |-> "red", drawn |-> <<random>>]
      [] state \in {"PLUS", "MINUS"} ->
            [outcome |-> IF 2 * random < RandomResolution THEN "blue" ELSE "red",
             drawn |-> <<random>>]
      [] state = "DECOHERED" -> [outcome |-> "yellow", drawn |-> <<random>>]
      [] OTHER -> [outcome |-> "blue", drawn |-> <<random>>]

measureState(state, random) ==
    CASE state = "ZERO" -> [outcome |-> "blue", drawn |-> <<>>]
      [] state = "ONE" -> [outcome |-> "red", drawn |-> <<>>]
      [] state \in {"PLUS", "MINUS"} ->
            [outcome |-> IF 2 * random < RandomResolution THEN "blue" ELSE "red",
             drawn |-> <<random>>]
      [] state = "DECOHERED" -> [outcome |-> "yellow", drawn |-> <<>>]
      [] OTHER -> [outcome |-> "blue", drawn |-> <<>>]

\* buildColumnData(gates): the column record, plus what the measurement drew.
buildColumnData(gates, random) ==
    LET states == buildStepStates("ZERO", gates)
        finalState == states[Len(states)]
        measured == measureState(finalState, random)
    IN  [column |-> [gates |-> gates, states |-> states, finalState |-> finalState,
                     measurement |-> measured.outcome],
         drawn |-> measured.drawn]

SeqsUpTo(S, n) == UNION {[1 .. k -> S] : k \in 0 .. n}

\* ---- gate strings: parseGateString, gatesToString, generateRandomCircuit ----
\* A string is the sequence of its characters.  A missing argument
\* (undefined) is the one-element sequence MissingText.
MissingText == <<undefined>>
Chars == {"X", "x", "h", "Z", "n", "!"}
ExampleTexts == {<<"x", "H", "z", "!", "!", "Q">>, <<"X", "H", "Z", "N">>}
TextInputs == SeqsUpTo(Chars, MaxText) \cup ExampleTexts \cup {MissingText}

\* ch.toUpperCase() on the characters that occur.
toUpperCase(ch) ==
    LET upper == [x |-> "X", h |-> "H", z |-> "Z", n |-> "N", q |-> "Q"]
    IN  IF ch \in DOMAIN upper THEN upper[ch] ELSE ch

availableGates_WithNoise == <<"X", "H", "Z", "NOISE", null>>

availableGates == <<"X", "H", "Z", null, null>>

\* availableGates[Math.floor(Math.random() * availableGates.length)]
randomGate_Ceil(random) ==
    LET index == (random * Len(availableGates)) \div RandomResolution + 1
    IN  IF index + 1 \in DOMAIN availableGates THEN availableGates[index + 1]
        ELSE undefined

randomGate(random) ==
    LET index == (random * Len(availableGates)) \div RandomResolution
    IN  IF index + 1 \in DOMAIN availableGates THEN availableGates[index + 1]
        ELSE undefined

\* generateRandomCircuit(numGates), with `draws` the values of the numGates
\* Math.random() calls it makes, in order.
generateRandomCircuit(numGates, draws) ==
    [i \in 1 .. numGates |-> randomGate(draws[i])]

validGates_NUnmapped == [X |-> "X", H |-> "H", Z |-> "Z", N |-> "N"]

validGates == [X |-> "X", H |-> "H", Z |-> "Z", N |-> "NOISE"]

\* validGates[ch]
validGatesLookup(ch) ==
    IF ch \in DOMAIN validGates THEN validGates[ch]
    ELSE IF ch \in DOMAIN ObjectPrototype THEN ObjectPrototype[ch]
    ELSE undefined

RECURSIVE parseGateStringLoop(_, _, _)
parseGateStringLoop(gates, chars, numGates) ==
    IF chars = <<>> THEN gates
    ELSE LET ch == Head(chars)
             pushed == IF ~Falsy(validGatesLookup(ch)) /\ Len(gates) < numGates
                       THEN Append(gates, validGatesLookup(ch)) ELSE gates
         IN  parseGateStringLoop(pushed, Tail(chars), numGates)

parseGateString_CaseSensitive(str, numGates) ==
    LET text == IF str = <<>> \/ str = MissingText THEN <<>> ELSE str
        gates == parseGateStringLoop(<<>>, text, numGates)
    IN  gates \o [i \in 1 .. (numGates - Len(gates)) |-> null]

parseGateString(str, numGates) ==
    LET text == IF str = <<>> \/ str = MissingText THEN <<>> ELSE str
        upper == [i \in DOMAIN text |-> toUpperCase(text[i])]
        gates == parseGateStringLoop(<<>>, upper, numGates)
    IN  gates \o [i \in 1 .. (numGates - Len(gates)) |-> null]

\* gates.filter(Boolean).map(...).join('') : every piece is one character.
Truthy(v) == ~Falsy(v)

gatesToString_NoiseVerbatim(gates) ==
    SelectSeq(gates, Truthy)

gatesToString(gates) ==
    LET kept == SelectSeq(gates, Truthy)
    IN  [i \in DOMAIN kept |-> IF kept[i] = "NOISE" THEN "N" ELSE kept[i]]

\* ---- the circuit view (App): its own copy of the gate algebra ----
NUM_SLOTS == 4
PaletteGates == {"X", "H", "Z", "NOISE"}

\* The table inside App's applyGate.
table ==
    [X |-> [ZERO |-> "ONE", ONE |-> "ZERO", PLUS |-> "PLUS", MINUS |-> "MINUS"],
     H |-> [ZERO |-> "PLUS", ONE |-> "MINUS", PLUS |-> "ZERO", MINUS |-> "ONE"],
     Z |-> [ZERO |-> "ZERO", ONE |-> "ONE", PLUS |-> "MINUS", MINUS |-> "PLUS"],
     NOISE |-> [ZERO |-> "DECOHERED", ONE |-> "DECOHERED", PLUS |-> "DECOHERED",
                MINUS |-> "DECOHERED"]]

\* table[gate]?.[state]
tableLookup(gate, state) ==
    IF gate \in DOMAIN table
    THEN IF state \in DOMAIN table[gate] THEN table[gate][state]
         ELSE IF state \in DOMAIN ObjectPrototype THEN ObjectPrototype[state]
         ELSE undefined
    ELSE IF gate \in DOMAIN ObjectPrototype
         THEN IF state \in DOMAIN FunctionPrototype THEN FunctionPrototype[state]
              ELSE undefined
         ELSE undefined

AppApplyGate(state, gate) ==
    IF Falsy(gate) THEN state
    ELSE IF state = "DECOHERED" THEN "DECOHERED"
    ELSE LET found == tableLookup(gate, state)
         IN  IF found \in {null, undefined} THEN state ELSE found

RECURSIVE AppBuildStepStatesLoop(_, _, _)
AppBuildStepStatesLoop(states, current, gates) ==
    IF gates = <<>> THEN Append(states, current)
    ELSE LET next == AppApplyGate(current, Head(gates))
         IN  AppBuildStepStatesLoop(Append(states, next), next, Tail(gates))

AppBuildStepStates_NoRepeat(initialState, gates) ==
    LET first == IF initialState = "ONE" THEN "ONE" ELSE "ZERO"
        built == AppBuildStepStatesLoop(<<first>>, first, gates)
    IN  SubSeq(built, 1, Len(built) - 1)

\* App's buildStepStates: gates.length + 2 elements, the last one repeated.
AppBuildStepStates(initialState, gates) ==
    LET first == IF initialState = "ONE" THEN "ONE" ELSE "ZERO"
    IN  AppBuildStepStatesLoop(<<first>>, first, gates)

AppMeasureState(state, random) ==
    CASE state = "ZERO" -> "blue"
      [] state = "ONE" -> "red"
      [] state \in {"PLUS", "MINUS"} ->
            IF 2 * random < RandomResolution THEN "blue" ELSE "red"
      [] state = "DECOHERED" -> "yellow"
      [] OTHER -> "blue"

stateLabels ==
    [ZERO |-> "|0>", ONE |-> "|1>", PLUS |-> "|+>", MINUS |-> "|->",
     DECOHERED |-> "Decohered"]

\* color === 'blue' ? '|0> detected' : color === 'red' ? '|1> detected' : 'Classical'
DetectedLabel(color) ==
    IF color = "blue" THEN "|0> detected"
    ELSE IF color = "red" THEN "|1> detected" ELSE "Classical"

(***************************************************************************)
(* State.                                                                  *)
(*   state0, gate, state, applied : a value, a gate, and the value after   *)
(*       `applied` calls state = applyGate(state, gate)                    *)
(*   measurements : the measureState calls made on `state` so far          *)
(*   initialState, gates, states  : arguments and result of                *)
(*       buildStepStates                                                   *)
(*   columns : the buildColumnData(gates) results so far                   *)
(*   randoms : the values Math.random() has returned so far                *)
(*   str, numGates, parsed : arguments and result of parseGateString       *)
(*   restr : gatesToString(parsed)                                         *)
(*   origin, textPc : where the gate string came from (typed text, a given *)
(*       gate array, a generated one) and the next step of that flow       *)
(*   gateSlots, photonPhase, photonStep, measurementColor, displayLabel :  *)
(*       the circuit view's React state (with initialState)                *)
(*   stepTimers : the pending timeouts of timeoutRef, in firing order      *)
(*   detectTimers : the pending timeouts that set the measurement (not in  *)
(*       timeoutRef), in firing order; `late` marks one scheduled while    *)
(*       the decoherence animation was already running                     *)
(*   decoherence : DecoherenceEffect is unmounted, animating (its          *)
(*       completion timeout pending) or complete                           *)
(*   edits : drop, remove and toggle actions so far                        *)
(*   animProgress, isAnimating, isRepeating, stepIndex, measureSeed : the  *)
(*       fixture view's React state; animProgress is a fraction <<n, d>>   *)
(*   effect : the variables of the auto-play effect's latest run (elapsed  *)
(*       frames since `start`, -1 while start is null; whether `frame` and *)
(*       `timeout` are pending; `cancelled`)                               *)
(*   effectDeps : the isAnimating value the auto-play effect last ran for  *)
(***************************************************************************)
VARIABLES state0, gate, state, applied, measurements,
          initialState, gates, states, columns, randoms,
          str, numGates, parsed, restr, origin, textPc,
          gateSlots, photonPhase, photonStep, measurementColor, displayLabel,
          stepTimers, detectTimers, decoherence, edits,
          animProgress, isAnimating, isRepeating, stepIndex, measureSeed,
          effect, effectDeps

gateVars == <<state0, gate, state, applied, measurements>>
trajVars == <<initialState, gates, states, columns>>
textVars == <<str, numGates, parsed, restr, origin, textPc>>
appVars == <<gateSlots, photonPhase, photonStep, measurementColor, displayLabel,
             stepTimers, detectTimers, decoherence, edits>>
fixVars == <<animProgress, isAnimating, isRepeating, stepIndex, measureSeed,
             effect, effectDeps>>
vars == <<state0, gate, state, applied, measurements,
          initialState, gates, states, columns, randoms,
          str, numGates, parsed, restr, origin, textPc,
          gateSlots, photonPhase, photonStep, measurementColor, displayLabel,
          stepTimers, detectTimers, decoherence, edits,
          animProgress, isAnimating, isRepeating, stepIndex, measureSeed,
          effect, effectDeps>>

GateIdle ==
    /\ state0 = "ZERO" /\ gate = null /\ state = "ZERO"
    /\ applied = 0 /\ measurements = <<>>

TrajIdle ==
    /\ initialState = "ZERO" /\ gates = <<>>
    /\ states = <<>> /\ columns = <<>>

TextIdle ==
    /\ str = <<>> /\ numGates = 0 /\ parsed = <<>> /\ restr = <<>>
    /\ origin = "none" /\ textPc = "idle"

\* The circuit view as useState leaves it.
AppIdle ==
    /\ gateSlots = [i \in 1 .. NUM_SLOTS |-> null]
    /\ photonPhase = "idle" /\ photonStep = 0
    /\ measurementColor = "none" /\ displayLabel = "|0>"
    /\ stepTimers = <<>> /\ detectTimers = <<>>
    /\ decoherence = "unmounted" /\ edits = 0

\* The auto-play effect before its first run with isAnimating true.
NoEffect == [elapsed |-> -1, frame |-> FALSE, timeout |-> FALSE, cancelled |-> FALSE]

\* The fixture view as useState leaves it.
FixIdle ==
    /\ animProgress = <<0, 1>> /\ isAnimating = FALSE /\ isRepeating = FALSE
    /\ stepIndex = -1 /\ measureSeed = 0
    /\ effect = NoEffect /\ effectDeps = FALSE

\* ---- applyGate / measureState on single values ----

InitGate ==
    /\ state0 \in StateInputs
    /\ gate \in GateInputs
    /\ state = state0
    /\ applied = 0
    /\ measurements = <<>>
    /\ randoms = <<>>
    /\ TrajIdle
    /\ TextIdle
    /\ AppIdle
    /\ FixIdle

ApplyGate ==
    /\ applied < MaxApplications
    /\ state' = applyGate(state, gate)
    /\ applied' = applied + 1
    /\ UNCHANGED <<state0, gate, measurements, randoms>>
    /\ UNCHANGED trajVars
    /\ UNCHANGED textVars
    /\ UNCHANGED appVars
    /\ UNCHANGED fixVars

MeasureState ==
    /\ Len(measurements) < MaxMeasurements
    /\ \E random \in RandomValues :
          LET measured == measureState(state, random)
          IN  /\ measurements' = Append(measurements,
                     [state |-> state, outcome |-> measured.outcome])
              /\ randoms' = randoms \o measured.drawn
    /\ UNCHANGED <<state0, gate, state, applied>>
    /\ UNCHANGED trajVars
    /\ UNCHANGED textVars
    /\ UNCHANGED appVars
    /\ UNCHANGED fixVars

NextGate == ApplyGate \/ MeasureState

SpecGate == InitGate /\ [][NextGate]_vars

\* ---- buildStepStates on an initial value and a gate sequence ----

Init ==
    /\ initialState \in InitialStateInputs
    /\ gates \in SeqsUpTo(GateSlotInputs, MaxLen)
    /\ states = <<>>
    /\ columns = <<>>
    /\ randoms = <<>>
    /\ GateIdle
    /\ TextIdle
    /\ AppIdle
    /\ FixIdle

BuildStepStates ==
    /\ states = <<>>
    /\ states' = buildStepStates(initialState, gates)
    /\ UNCHANGED <<initialState, gates, columns, randoms>>
    /\ UNCHANGED gateVars
    /\ UNCHANGED textVars
    /\ UNCHANGED appVars
    /\ UNCHANGED fixVars

\* measureState on the final element of the trajectory, once per run.
MeasureFinalState ==
    /\ states # <<>>
    /\ measurements = <<>>
    /\ \E random \in RandomValues :
          LET measured == measureState(states[Len(states)], random)
          IN  /\ measurements' = <<[state |-> states[Len(states)],
                                    outcome |-> measured.outcome]>>
              /\ randoms' = randoms \o measured.drawn
    /\ UNCHANGED <<state0, gate, state, applied>>
    /\ UNCHANGED trajVars
    /\ UNCHANGED textVars
    /\ UNCHANGED appVars
    /\ UNCHANGED fixVars

Next == BuildStepStates \/ MeasureFinalState

Spec == Init /\ [][Next]_vars

\* ---- buildColumnData, called again and again on one gate sequence ----

InitColumn ==
    /\ initialState = "ZERO"
    /\ gates \in SeqsUpTo(GateSlotInputs, MaxLen)
    /\ states = <<>>
    /\ columns = <<>>
    /\ randoms = <<>>
    /\ GateIdle
    /\ TextIdle
    /\ AppIdle
    /\ FixIdle

BuildColumnData_Memoized ==
    /\ Len(columns) < MaxMeasurements
    /\ \E random \in RandomValues :
          LET built == buildColumnData(gates, random)
          IN  IF columns = <<>>
              THEN /\ columns' = Append(columns, built.column)
                   /\ randoms' = randoms \o built.drawn
              ELSE /\ columns' = Append(columns, columns[1])
                   /\ randoms' = randoms
    /\ UNCHANGED <<initialState, gates, states>>
    /\ UNCHANGED gateVars
    /\ UNCHANGED textVars
    /\ UNCHANGED appVars
    /\ UNCHANGED fixVars

BuildColumnData ==
    /\ Len(columns) < MaxMeasurements
    /\ \E random \in RandomValues :
          LET built == buildColumnData(gates, random)
          IN  /\ columns' = Append(columns, built.column)
              /\ randoms' = randoms \o built.drawn
    /\ UNCHANGED <<initialState, gates, states>>
    /\ UNCHANGED gateVars
    /\ UNCHANGED textVars
    /\ UNCHANGED appVars
    /\ UNCHANGED fixVars

NextColumn == BuildColumnData

SpecColumn == InitColumn /\ [][NextColumn]_vars

\* ---- gate strings: generate, format, parse, format again ----

InitText ==
    /\ GateIdle
    /\ AppIdle
    /\ FixIdle
    /\ initialState = "ZERO" /\ states = <<>> /\ columns = <<>>
    /\ randoms = <<>>
    /\ parsed = <<>> /\ restr = <<>>
    /\ \/ /\ origin = "text" /\ textPc = "text"
          /\ str \in TextInputs /\ numGates \in 0 .. MaxLen
          /\ gates = <<>>
       \/ /\ origin = "gates" /\ textPc = "gates"
          /\ gates \in SeqsUpTo(GateSlotInputs, MaxLen)
          /\ str = <<>> /\ numGates = Len(gates)
       \/ /\ origin = "random" /\ textPc = "generate"
          /\ numGates \in 0 .. MaxLen
          /\ gates = <<>> /\ str = <<>>

GenerateRandomCircuit ==
    /\ textPc = "generate"
    /\ \E draws \in [1 .. numGates -> RandomValues] :
          /\ gates' = generateRandomCircuit(numGates, draws)
          /\ randoms' = randoms \o draws
    /\ textPc' = "gates"
    /\ UNCHANGED <<initialState, states, columns, str, numGates, parsed, restr, origin>>
    /\ UNCHANGED gateVars
    /\ UNCHANGED appVars
    /\ UNCHANGED fixVars

GatesToString ==
    /\ textPc = "gates"
    /\ str' = gatesToString(gates)
    /\ textPc' = "text"
    /\ UNCHANGED <<numGates, parsed, restr, origin, randoms>>
    /\ UNCHANGED trajVars
    /\ UNCHANGED gateVars
    /\ UNCHANGED appVars
    /\ UNCHANGED fixVars

ParseGateString ==
    /\ textPc = "text"
    /\ parsed' = parseGateString(str, numGates)
    /\ textPc' = "parsed"
    /\ UNCHANGED <<str, numGates, restr, origin, randoms>>
    /\ UNCHANGED trajVars
    /\ UNCHANGED gateVars
    /\ UNCHANGED appVars
    /\ UNCHANGED fixVars

GatesToStringParsed ==
    /\ textPc = "parsed"
    /\ restr' = gatesToString(parsed)
    /\ textPc' = "done"
    /\ UNCHANGED <<str, numGates, parsed, origin, randoms>>
    /\ UNCHANGED trajVars
    /\ UNCHANGED gateVars
    /\ UNCHANGED appVars
    /\ UNCHANGED fixVars

NextText ==
    GenerateRandomCircuit \/ GatesToString \/ ParseGateString \/ GatesToStringParsed

SpecText == InitText /\ [][NextText]_vars

\* ---- the circuit view: user actions and timeouts ----

\* stepStates, the useMemo over initialState and gateSlots.
StepStatesOf(init, slots) == AppBuildStepStates(init, slots)
stepStates == StepStatesOf(initialState, gateSlots)
totalSteps == NUM_SLOTS + 1

\* Circuit's currentState and isDecohered for a rendered state.
CurrentStateOf(phase, step, init, slots) ==
    IF phase = "idle" THEN (IF init = "ONE" THEN "ONE" ELSE "ZERO")
    ELSE StepStatesOf(init, slots)[step + 1]

IsDecoheredOf(phase, step, init, slots) ==
    CurrentStateOf(phase, step, init, slots) = "DECOHERED" /\ phase # "idle"

\* DecoherenceEffect after the render of a new state: unmounted when
\* isDecohered is false, mounted with its completion timeout pending when
\* isDecohered turns true, left as it is while isDecohered stays true.
DecoherenceAfter(phase, step, init, slots) ==
    IF ~IsDecoheredOf(phase, step, init, slots) THEN "unmounted"
    ELSE IF decoherence = "unmounted" THEN "animating" ELSE decoherence

\* The detector timeouts after that render: those pending when the effect
\* mounts are all due before its completion timeout.
DetectTimersAfter(timers, phase, step, init, slots) ==
    IF decoherence = "unmounted" /\ IsDecoheredOf(phase, step, init, slots)
    THEN [i \in DOMAIN timers |-> [timers[i] EXCEPT !.late = FALSE]]
    ELSE timers

\* A detector timeout scheduled now is late when the effect is animating
\* before and after this step.
LateAfter(phase, step, init, slots) ==
    decoherence = "animating" /\ IsDecoheredOf(phase, step, init, slots)

Rendered ==
    /\ decoherence' = DecoherenceAfter(photonPhase', photonStep', initialState', gateSlots')

InitApp ==
    /\ initialState = "ZERO"
    /\ gates = <<>> /\ states = <<>> /\ columns = <<>>
    /\ randoms = <<>>
    /\ AppIdle
    /\ FixIdle
    /\ GateIdle
    /\ TextIdle

AppFrame == UNCHANGED <<gates, states, columns, randoms>> /\ UNCHANGED gateVars
                /\ UNCHANGED textVars /\ UNCHANGED fixVars

\* GateSlot.handleDrop -> handleDropGate; refused while `disabled`.
HandleDropGate ==
    /\ photonPhase \notin {"running", "stepping"}
    /\ edits < MaxEdits
    /\ \E index \in 1 .. NUM_SLOTS, gateType \in PaletteGates :
          gateSlots' = [gateSlots EXCEPT ![index] = gateType]
    /\ edits' = edits + 1
    /\ UNCHANGED <<initialState, photonPhase, photonStep, measurementColor,
                   displayLabel, stepTimers>>
    /\ detectTimers' = DetectTimersAfter(detectTimers, photonPhase', photonStep',
                                         initialState', gateSlots')
    /\ Rendered
    /\ AppFrame

\* PlacedGate's onClick -> handleRemoveGate; a placed gate can be clicked in
\* every phase.
HandleRemoveGate ==
    /\ edits < MaxEdits
    /\ \E index \in 1 .. NUM_SLOTS :
          /\ ~Falsy(gateSlots[index])
          /\ gateSlots' = [gateSlots EXCEPT ![index] = null]
    /\ edits' = edits + 1
    /\ UNCHANGED <<initialState, photonPhase, photonStep, measurementColor,
                   displayLabel, stepTimers>>
    /\ detectTimers' = DetectTimersAfter(detectTimers, photonPhase', photonStep',
                                         initialState', gateSlots')
    /\ Rendered
    /\ AppFrame

HandleToggleInitial ==
    /\ photonPhase # "running"
    /\ edits < MaxEdits
    /\ initialState' = IF initialState = "ZERO" THEN "ONE" ELSE "ZERO"
    /\ displayLabel' = IF displayLabel = "|0>" THEN "|1>" ELSE "|0>"
    /\ edits' = edits + 1
    /\ UNCHANGED <<gateSlots, photonPhase, photonStep, measurementColor, stepTimers>>
    /\ detectTimers' = DetectTimersAfter(detectTimers, photonPhase', photonStep',
                                         initialState', gateSlots')
    /\ Rendered
    /\ AppFrame

\* The step timeouts handleStart schedules: steps 1 .. totalSteps, up to and
\* including the first DECOHERED one.
ScheduledSteps(ss) ==
    LET decohered == {step \in 1 .. totalSteps : ss[step + 1] = "DECOHERED"}
        last == IF decohered = {} THEN totalSteps
                ELSE CHOOSE step \in decohered : \A other \in decohered : step <= other
    IN  [step \in 1 .. last |-> [step |-> step, st |-> ss[step + 1]]]

HandleStart_KeepsColour ==
    /\ photonPhase \notin {"running", "stepping"}
    /\ photonPhase' = "running"
    /\ photonStep' = 0
    /\ displayLabel' = stateLabels[stepStates[1]]
    /\ stepTimers' = ScheduledSteps(stepStates)
    /\ UNCHANGED <<initialState, gateSlots, edits, measurementColor>>
    /\ detectTimers' = DetectTimersAfter(detectTimers, photonPhase', photonStep',
                                         initialState', gateSlots')
    /\ Rendered
    /\ AppFrame

\* The START button is disabled while running or stepping.
HandleStart ==
    /\ photonPhase \notin {"running", "stepping"}
    /\ measurementColor' = "none"
    /\ photonPhase' = "running"
    /\ photonStep' = 0
    /\ displayLabel' = stateLabels[stepStates[1]]
    /\ stepTimers' = ScheduledSteps(stepStates)
    /\ UNCHANGED <<initialState, gateSlots, edits>>
    /\ detectTimers' = DetectTimersAfter(detectTimers, photonPhase', photonStep',
                                         initialState', gateSlots')
    /\ Rendered
    /\ AppFrame

\* The STEP button is disabled while running or done.
HandleStep ==
    /\ \/ /\ photonPhase = "idle"
          /\ measurementColor' = "none"
          /\ photonPhase' = "stepping"
          /\ photonStep' = 0
          /\ displayLabel' = stateLabels[stepStates[1]]
          /\ UNCHANGED <<initialState, gateSlots>>
          /\ detectTimers' = DetectTimersAfter(detectTimers, photonPhase', photonStep',
                                               initialState', gateSlots')
       \/ /\ photonPhase = "stepping"
          /\ photonStep + 1 <= totalSteps
          /\ LET nextStep == photonStep + 1
                 st == stepStates[nextStep + 1]
             IN  /\ photonStep' = nextStep
                 /\ displayLabel' = stateLabels[st]
                 /\ UNCHANGED <<initialState, gateSlots, photonPhase, measurementColor>>
                 /\ IF st # "DECOHERED" /\ nextStep = totalSteps
                    THEN /\ Len(detectTimers) < MaxPending
                         /\ detectTimers' =
                               Append(detectTimers,
                                      [by |-> "step", st |-> st, color |-> "unmeasured",
                                       late |-> LateAfter(photonPhase', photonStep',
                                                          initialState', gateSlots')])
                    ELSE detectTimers' =
                            DetectTimersAfter(detectTimers, photonPhase', photonStep',
                                              initialState', gateSlots')
    /\ UNCHANGED <<stepTimers, edits>>
    /\ Rendered
    /\ AppFrame

HandleDecoherenceComplete_Yellow ==
    /\ decoherence = "animating"
    /\ \A i \in DOMAIN detectTimers : detectTimers[i].late
    /\ measurementColor' = "yellow"
    /\ photonPhase' = "done"
    /\ displayLabel' = "Classical"
    /\ decoherence' = "complete"
    /\ UNCHANGED <<initialState, gateSlots, photonStep, stepTimers, detectTimers, edits>>
    /\ AppFrame

\* DecoherenceEffect's last timeout calls onComplete.  It was set when the
\* effect mounted, so it is due after every detector timeout pending then.
HandleDecoherenceComplete ==
    /\ decoherence = "animating"
    /\ \A i \in DOMAIN detectTimers : detectTimers[i].late
    /\ measurementColor' = "lost"
    /\ photonPhase' = "done"
    /\ displayLabel' = "Photon Lost"
    /\ decoherence' = "complete"
    /\ UNCHANGED <<initialState, gateSlots, photonStep, stepTimers, detectTimers, edits>>
    /\ AppFrame

HandleReset ==
    /\ stepTimers' = <<>>
    /\ gateSlots' = [i \in 1 .. NUM_SLOTS |-> null]
    /\ photonPhase' = "idle"
    /\ photonStep' = 0
    /\ measurementColor' = "none"
    /\ displayLabel' = stateLabels[initialState]
    /\ UNCHANGED <<initialState, detectTimers, edits>>
    /\ Rendered
    /\ AppFrame

\* The next timeout of handleStart's loop fires.  Its delay is at least
\* 800 ms, and every detector timeout pending beside it was set before that
\* handleStart with at most 500 ms, so those fire first.
StepTimerFires ==
    /\ stepTimers # <<>>
    /\ detectTimers = <<>>
    /\ UNCHANGED <<initialState, gateSlots, photonPhase, measurementColor, edits>>
    /\ LET step == Head(stepTimers).step
           st == Head(stepTimers).st
       IN  /\ photonStep' = step
           /\ displayLabel' = stateLabels[st]
           /\ IF st = "DECOHERED"
              THEN /\ stepTimers' = <<>>
                   /\ detectTimers' = DetectTimersAfter(detectTimers, photonPhase',
                                          photonStep', initialState', gateSlots')
              ELSE /\ stepTimers' = Tail(stepTimers)
                   /\ IF step = totalSteps
                      THEN \E random \in RandomValues :
                              detectTimers' =
                                 <<[by |-> "start", st |-> st,
                                    color |-> AppMeasureState(st, random),
                                    late |-> LateAfter(photonPhase', photonStep',
                                                       initialState', gateSlots')]>>
                      ELSE detectTimers' = DetectTimersAfter(detectTimers, photonPhase',
                                               photonStep', initialState', gateSlots')
    /\ Rendered
    /\ AppFrame

\* The oldest detector timeout fires: the 400 ms one of handleStart's last
\* step (colour measured when it was set) or the 500 ms one of handleStep
\* (colour measured now).
DetectTimerFires ==
    /\ detectTimers # <<>>
    /\ \E random \in RandomValues :
          LET timer == Head(detectTimers)
              color == IF timer.by = "start" THEN timer.color
                       ELSE AppMeasureState(timer.st, random)
          IN  /\ measurementColor' = color
              /\ displayLabel' = DetectedLabel(color)
    /\ photonPhase' = "done"
    /\ UNCHANGED <<initialState, gateSlots, photonStep, stepTimers, edits>>
    /\ detectTimers' = DetectTimersAfter(Tail(detectTimers), photonPhase', photonStep',
                                         initialState', gateSlots')
    /\ Rendered
    /\ AppFrame

NextApp ==
    \/ HandleDropGate
    \/ HandleRemoveGate
    \/ HandleToggleInitial
    \/ HandleStart
    \/ HandleStep
    \/ HandleReset
    \/ StepTimerFires
    \/ DetectTimerFires
    \/ HandleDecoherenceComplete

SpecApp == InitApp /\ [][NextApp]_vars

\* The browser fires every pending timeout; the user's actions are not
\* forced.
FairSpecApp ==
    /\ SpecApp
    /\ WF_vars(StepTimerFires)
    /\ WF_vars(DetectTimerFires)
    /\ WF_vars(HandleDecoherenceComplete)

\* ---- the fixture view: auto-play, stepping and repeat ----

NUM_GATES == 4
TOTAL_STEPS == NUM_GATES + 1

\* A progress value n / d, clamped to [0, 1]; 0 and 1 have one form each.
Progress(n, d) ==
    IF n <= 0 THEN <<0, 1>> ELSE IF n >= d THEN <<1, 1>> ELSE <<n, d>>

isDone == animProgress = <<1, 1>>
isStepping == stepIndex >= 0 /\ ~isAnimating

\* The auto-play effect after React has run it for the rendered
\* isAnimating: nothing while the dependency is the same; a fresh run that
\* requests the first frame when it became true; the cleanup of the last run
\* (cancelled, frame cancelled, timeout cleared) when it became false.
EffectFor(eff, deps, animating) ==
    IF animating = deps THEN eff
    ELSE IF animating
         THEN [elapsed |-> -1, frame |-> TRUE, timeout |-> FALSE, cancelled |-> FALSE]
         ELSE [eff EXCEPT !.cancelled = TRUE, !.frame = FALSE, !.timeout = FALSE]

\* A click handler's render: React first runs the effects still pending
\* from earlier renders, and runs the effects of this render before it
\* returns to the browser.
RenderedByClick ==
    /\ effect' = EffectFor(EffectFor(effect, effectDeps, isAnimating),
                           isAnimating, isAnimating')
    /\ effectDeps' = isAnimating'

FixFrame ==
    /\ UNCHANGED <<initialState, gates, states, columns, randoms>>
    /\ UNCHANGED gateVars /\ UNCHANGED textVars /\ UNCHANGED appVars

InitFixture ==
    /\ initialState = "ZERO"
    /\ gates = <<>> /\ states = <<>> /\ columns = <<>>
    /\ randoms = <<>>
    /\ GateIdle
    /\ TextIdle
    /\ AppIdle
    /\ FixIdle

\* The PLAY button is disabled while animating, stepping or repeating.
StartAnimation ==
    /\ ~(isAnimating \/ isStepping \/ isRepeating)
    /\ animProgress' = <<0, 1>>
    /\ stepIndex' = -1
    /\ isAnimating' = TRUE
    /\ UNCHANGED <<isRepeating, measureSeed>>
    /\ RenderedByClick
    /\ FixFrame

\* The REPEAT / STOP button is always enabled.
ToggleRepeater ==
    /\ IF ~isRepeating
       THEN /\ animProgress' = <<0, 1>>
            /\ stepIndex' = -1
            /\ isAnimating' = TRUE
            /\ isRepeating' = TRUE
       ELSE /\ isRepeating' = FALSE
            /\ UNCHANGED <<animProgress, stepIndex, isAnimating>>
    /\ UNCHANGED measureSeed
    /\ RenderedByClick
    /\ FixFrame

\* The STEP button is disabled while animating, done or repeating.
FixtureHandleStep ==
    /\ ~(isAnimating \/ isDone \/ isRepeating)
    /\ stepIndex + 1 <= TOTAL_STEPS
    /\ stepIndex' = stepIndex + 1
    /\ animProgress' = Progress(stepIndex + 1, TOTAL_STEPS)
    /\ UNCHANGED <<isAnimating, isRepeating, measureSeed>>
    /\ RenderedByClick
    /\ FixFrame

\* RESET (randomize sets the same four values, with new gate strings).
ResetPhotons ==
    /\ animProgress' = <<0, 1>>
    /\ isAnimating' = FALSE
    /\ isRepeating' = FALSE
    /\ stepIndex' = -1
    /\ UNCHANGED measureSeed
    /\ RenderedByClick
    /\ FixFrame

\* An animation frame: tick.  The first frame sets `start`; the frame that
\* reaches progress 1 sets isAnimating to false and, when repeating, the
\* 1500 ms timeout.  The effect's cleanup for that render is still to run.
Tick ==
    /\ effect.frame
    /\ ~effect.cancelled
    /\ LET elapsed == IF effect.elapsed = -1 THEN 0 ELSE effect.elapsed + 1
       IN  /\ animProgress' = Progress(elapsed, MaxFrames)
           /\ IF elapsed < MaxFrames
              THEN /\ effect' = [effect EXCEPT !.elapsed = elapsed]
                   /\ UNCHANGED isAnimating
              ELSE /\ isAnimating' = FALSE
                   /\ effect' = [effect EXCEPT !.elapsed = elapsed, !.frame = FALSE,
                                               !.timeout = isRepeating]
    /\ UNCHANGED <<isRepeating, stepIndex, measureSeed, effectDeps>>
    /\ FixFrame

\* React runs the auto-play effect for the last render.
FlushPassiveEffects ==
    /\ effectDeps # isAnimating
    /\ effect' = EffectFor(effect, effectDeps, isAnimating)
    /\ effectDeps' = isAnimating
    /\ UNCHANGED <<animProgress, isAnimating, isRepeating, stepIndex, measureSeed>>
    /\ FixFrame

\* The 1500 ms timeout of a repeating run fires.  Its render first runs the
\* effects still pending, then leaves the new run of the effect pending.
RepeatTimeoutFires ==
    /\ effect.timeout
    /\ IF ~effect.cancelled
       THEN /\ measureSeed < MaxSeed
            /\ measureSeed' = measureSeed + 1
            /\ animProgress' = <<0, 1>>
            /\ isAnimating' = TRUE
            /\ effect' = [EffectFor(effect, effectDeps, isAnimating)
                             EXCEPT !.timeout = FALSE]
            /\ effectDeps' = isAnimating
       ELSE /\ effect' = [effect EXCEPT !.timeout = FALSE]
            /\ UNCHANGED <<measureSeed, animProgress, isAnimating, effectDeps>>
    /\ UNCHANGED <<isRepeating, stepIndex>>
    /\ FixFrame

NextFixture ==
    \/ StartAnimation
    \/ ToggleRepeater
    \/ FixtureHandleStep
    \/ ResetPhotons
    \/ Tick
    \/ FlushPassiveEffects
    \/ RepeatTimeoutFires

\* The browser runs every requested frame and every pending timeout, and
\* React every pending effect; the user's clicks are not forced.
SpecFixture ==
    /\ InitFixture
    /\ [][NextFixture]_vars
    /\ WF_vars(Tick)
    /\ WF_vars(FlushPassiveEffects)
    /\ WF_vars(RepeatTimeoutFires)

(***************************************************************************)
(* Properties of the gate strings, checked under SpecText.                 *)
(***************************************************************************)
GateLetters == {"X", "H", "Z", "N"}
IsGateLetter(ch) == ch \in GateLetters
LetterGate(ch) == IF ch = "N" THEN "NOISE" ELSE ch

\* The valid characters of a text, upper-cased, in order.
ValidLetters(text) ==
    LET chars == IF text = MissingText THEN <<>> ELSE text
    IN  SelectSeq([i \in DOMAIN chars |-> toUpperCase(chars[i])], IsGateLetter)

Min(a, b) == IF a < b THEN a ELSE b

\* C12: parseGateString(text, length) returns exactly `length` slots: first
\* the gates of the valid characters of text in order, case-insensitive
\* (X, H, Z as themselves, N as NOISE), at most `length` of them; every other
\* character is dropped; the remaining slots are absent, so no absent slot
\* comes before a gate.  Empty and missing text give all-absent slots.
\* "xHz!!Q" with length 4 gives [X, H, Z, absent].
C12_ParseGateString ==
    (origin = "text" /\ textPc \in {"parsed", "done"}) =>
        LET letters == ValidLetters(str)
            taken == Min(numGates, Len(letters))
        IN  /\ Len(parsed) = numGates
            /\ \A i \in 1 .. taken : parsed[i] = LetterGate(letters[i])
            /\ \A i \in (taken + 1) .. numGates : parsed[i] = null
            /\ (str = <<"x", "H", "z", "!", "!", "Q">> /\ numGates = 4)
                  => parsed = <<"X", "H", "Z", null>>

C12_Witness ==
    /\ origin = "text" /\ textPc = "parsed"
    /\ str = <<"x", "H", "z", "!", "!", "Q">> /\ numGates = 4
    /\ parsed = <<"X", "H", "Z", null>>

\* C13: round trip.  For every gate sequence over {X, H, Z, NOISE, absent}
\* with no absent slot before its last populated slot,
\* parseGateString(gatesToString(seq), len(seq)) is seq.
C13_RoundTrip ==
    LET overGates == \A i \in DOMAIN gates : gates[i] \in {"X", "H", "Z", "NOISE", null}
        packed == \A i, j \in DOMAIN gates : (i < j /\ gates[j] # null) => gates[i] # null
    IN  (origin \in {"gates", "random"} /\ textPc \in {"parsed", "done"}
            /\ overGates /\ packed)
            => parsed = gates

C13_Witness ==
    /\ origin = "gates" /\ textPc = "parsed"
    /\ gates = <<"H", "NOISE", "X", null>>
    /\ str = <<"H", "N", "X">>
    /\ parsed = gates

\* C14: format after parse.  gatesToString drops absent slots and renders
\* NOISE as N and every other gate as its own symbol, in order; so
\* gatesToString(parseGateString(text, n)) is the upper-cased string of the
\* first n valid characters of text, and for "XHZN" with n = 4 it is "XHZN".
C14_FormatAfterParse ==
    (origin = "text" /\ textPc = "done") =>
        LET letters == ValidLetters(str)
        IN  /\ restr = SubSeq(letters, 1, Min(numGates, Len(letters)))
            /\ (str = <<"X", "H", "Z", "N">> /\ numGates = 4)
                  => restr = <<"X", "H", "Z", "N">>

C14_Witness ==
    /\ origin = "text" /\ textPc = "done"
    /\ str = <<"X", "H", "Z", "N">> /\ numGates = 4
    /\ parsed = <<"X", "H", "Z", "NOISE">>
    /\ restr = <<"X", "H", "Z", "N">>

Range(seq) == {seq[i] : i \in DOMAIN seq}
FinalState(gateSeq) ==
    LET built == buildStepStates("ZERO", gateSeq) IN built[Len(built)]

\* C28: for a gate sequence over X, H, Z, NOISE, absent, the trajectory from
\* ZERO of parseGateString(gatesToString(seq), len(seq)) ends in the same
\* state as the trajectory of seq itself.
C28_CompactionKeepsEndState ==
    (/\ origin \in {"gates", "random"} /\ textPc \in {"parsed", "done"}
     /\ Range(gates) \subseteq {"X", "H", "Z", "NOISE", null}) =>
        /\ numGates = Len(gates)
        /\ FinalState(parsed) = FinalState(gates)

C28_Witness ==
    /\ origin = "gates" /\ textPc = "parsed"
    /\ gates = <<null, "H", null, "Z">>
    /\ parsed = <<"H", "Z", null, null>>
    /\ FinalState(parsed) = "MINUS"

\* C29: a sequence generated by generateRandomCircuit (a column of
\* generateFixtureGrid) contains no NOISE gate; no state of its column's
\* trajectory is DECOHERED, and its measurement is blue or red whatever is
\* drawn.  The same holds of the column re-derived from its gate string.
C29_RandomNeverDecoheres ==
    (origin = "random" /\ textPc # "generate") =>
        /\ "NOISE" \notin Range(gates)
        /\ \A random \in RandomValues :
              \A gateSeq \in {gates} \cup (IF textPc \in {"parsed", "done"}
                                          THEN {parsed} ELSE {}) :
                 LET built == buildColumnData(gateSeq, random).column
                 IN  /\ "DECOHERED" \notin Range(built.states)
                     /\ built.measurement \in {"blue", "red"}

C29_Witness ==
    /\ origin = "random" /\ textPc = "parsed"
    /\ gates = <<"H", null, "X", "Z">>
    /\ parsed = <<"H", "X", "Z", null>>
    /\ buildColumnData(parsed, 0).column.measurement = "blue"
    /\ buildColumnData(parsed, RandomResolution - 1).column.measurement = "red"

(***************************************************************************)
(* Properties of the fixture view, checked under SpecFixture.              *)
(***************************************************************************)

\* C22: in repeat mode, every time the auto-play animation completes
\* (animProgress is 1 and isAnimating false) the animation eventually
\* restarts, with animProgress 0, isAnimating true and measureSeed one
\* higher, unless isRepeating is switched off first.
C22_RepeatRestarts ==
    \A seed \in 0 .. (MaxSeed - 1) :
        [](/\ isRepeating /\ isDone /\ ~isAnimating
           /\ measureSeed = seed /\ effect.elapsed = MaxFrames
           => <>(\/ ~isRepeating
                 \/ /\ isAnimating /\ animProgress = <<0, 1>>
                    /\ measureSeed = seed + 1))

(***************************************************************************)
(* Properties of the circuit view, checked under SpecApp.                  *)
(***************************************************************************)

\* C18 as claimed: whenever a run has ended (photonPhase is 'done'), the
\* colour handed to the detector is one of blue, red, yellow, and it is
\* yellow when the final trajectory state is DECOHERED.
C18_OutcomeAtDetector ==
    photonPhase = "done" =>
        /\ measurementColor \in {"blue", "red", "yellow"}
        /\ stepStates[totalSteps + 1] = "DECOHERED" => measurementColor = "yellow"

\* C18 as amended: whenever a run ends, the colour handed to the detector is
\* 'lost' if the run ends by the completion of the decoherence animation
\* (the photon then stands at a DECOHERED step), and otherwise blue or red,
\* the measurement of the final state the detector timeout captured, which
\* is not DECOHERED.  Yellow is never handed to the detector.
C18_ColourWhenRunEnds ==
    [][(photonPhase' = "done"
            /\ (photonPhase # "done" \/ measurementColor' # measurementColor)) =>
         IF decoherence = "animating" /\ decoherence' = "complete"
         THEN /\ measurementColor' = "lost"
              /\ CurrentStateOf(photonPhase, photonStep, initialState, gateSlots)
                    = "DECOHERED"
         ELSE /\ measurementColor' \in {"blue", "red"}
              /\ detectTimers # <<>>
              /\ Head(detectTimers).st # "DECOHERED"]_vars

C18_Witness ==
    /\ photonPhase = "done"
    /\ measurementColor = "lost"
    /\ decoherence = "complete"
    /\ stepStates[totalSteps + 1] = "DECOHERED"

\* C23: after handleReset the circuit view stays as Reset left it until the
\* user acts again: in phase 'idle' (which only Reset leaves behind) no step
\* that is not a user action changes the phase, the step, the measurement
\* colour or the label.
C23_ResetCancelsRun ==
    [][(/\ photonPhase = "idle"
        /\ ~(\/ HandleStart \/ HandleStep \/ HandleReset
             \/ HandleDropGate \/ HandleRemoveGate \/ HandleToggleInitial)) =>
         UNCHANGED <<photonPhase, photonStep, measurementColor, displayLabel>>]_vars

\* C24: while a run is in progress (phase 'running' or 'stepping', before
\* and after the step) gateSlots and initialState do not change.
C24_CircuitFrozenDuringRun ==
    [][(/\ photonPhase \in {"running", "stepping"}
        /\ photonPhase' \in {"running", "stepping"}) =>
         UNCHANGED <<gateSlots, initialState>>]_vars

\* C25: once the photon stands at a DECOHERED step of a run in progress,
\* photonStep does not change while the run lasts, and the run ends only by
\* handleDecoherenceComplete (colour 'lost') unless it is reset.
C25_NoTravelPastDecoherence ==
    [][(/\ photonPhase \in {"running", "stepping"}
        /\ stepStates[photonStep + 1] = "DECOHERED") =>
         /\ photonPhase' = photonPhase => photonStep' = photonStep
         /\ photonPhase' = "done" => measurementColor' = "lost"]_vars

\* C26: every auto-play run ends: from phase 'running' the view eventually
\* reaches phase 'done', unless Reset is pressed (phase 'idle').
C26_RunEnds ==
    (photonPhase = "running") ~> (photonPhase \in {"done", "idle"})


\* C30: measurementColor is 'none' in every state of the circuit view whose
\* phase is 'idle', 'running' or 'stepping'.
C30_ColourOnlyWhenDone ==
    photonPhase \in {"idle", "running", "stepping"} => measurementColor = "none"

\* A detector timeout left over from an earlier run has set the colour
\* while the step timeouts of a new run are pending.
C30_Witness ==
    /\ photonPhase = "done"
    /\ measurementColor \in {"blue", "red"}
    /\ stepTimers # <<>>

(***************************************************************************)
(* Properties of applyGate and measureState, checked under SpecGate.       *)
(***************************************************************************)
CoherentStates == {"ZERO", "ONE", "PLUS", "MINUS"}

\* C1: involution.  For every gate in {X, H, Z} and every state in
\* {ZERO, ONE, PLUS, MINUS}, applying the gate twice gives the state back.
C1_Involution ==
    (applied = 2 /\ gate \in {"X", "H", "Z"} /\ state0 \in CoherentStates)
        => state = state0

C1_Witness ==
    applied = 2 /\ gate = "H" /\ state0 = "PLUS" /\ state = "PLUS"

\* C2: DECOHERED is absorbing.  For every gate in {X, H, Z, NOISE} and for
\* the absent gate, applyGate(DECOHERED, gate) is DECOHERED, however often
\* it is applied.
C2_DecoheredAbsorbing ==
    (state0 = "DECOHERED" /\ gate \in {"X", "H", "Z", "NOISE", null})
        => state = "DECOHERED"

C2_Witness ==
    state0 = "DECOHERED" /\ gate = "X" /\ applied = 1 /\ state = "DECOHERED"

\* C3: noise totality.  For every state in {ZERO, ONE, PLUS, MINUS},
\* applyGate(state, NOISE) is DECOHERED.
C3_NoiseTotality ==
    (applied = 1 /\ gate = "NOISE" /\ state0 \in CoherentStates)
        => state = "DECOHERED"

C3_Witness ==
    applied = 1 /\ gate = "NOISE" /\ state0 = "MINUS" /\ state = "DECOHERED"

\* C4: for every gate in {X, H, Z} and every state in {ZERO, ONE, PLUS,
\* MINUS}, applyGate returns the entry of the documented transition table:
\* X swaps ZERO and ONE and fixes PLUS and MINUS; H maps ZERO to PLUS, ONE to
\* MINUS, PLUS to ZERO, MINUS to ONE; Z fixes ZERO and ONE and swaps PLUS and
\* MINUS.
C4_TransitionTable ==
    LET swap(a, b, s) == IF s = a THEN b ELSE IF s = b THEN a ELSE s
        documented(g, s) ==
            CASE g = "X" -> swap("ZERO", "ONE", s)
              [] g = "Z" -> swap("PLUS", "MINUS", s)
              [] g = "H" -> CASE s = "ZERO" -> "PLUS"
                              [] s = "ONE" -> "MINUS"
                              [] s = "PLUS" -> "ZERO"
                              [] s = "MINUS" -> "ONE"
    IN  (applied = 1 /\ gate \in {"X", "H", "Z"} /\ state0 \in CoherentStates)
            => state = documented(gate, state0)

C4_Witness ==
    applied = 1 /\ gate = "Z" /\ state0 = "PLUS" /\ state = "MINUS"

\* C5: applyGate(state, gate) returns state unchanged when gate is absent,
\* and also when the (gate, state) pair is not in the table (an unknown gate
\* symbol, or a state outside the five symbols).
C5_IdentityOutsideTable ==
    LET inTable == gate \in DOMAIN gateTable /\ state0 \in DOMAIN gateTable[gate]
    IN  (applied = 1 /\ (Falsy(gate) \/ ~inTable)) => state = state0

\* C9: measurement of a basis state is deterministic.  measureState(ZERO) is
\* always blue, measureState(ONE) always red, measureState(DECOHERED) always
\* yellow, and a value outside the five states gives blue.
C9_BasisMeasurement ==
    \A i \in DOMAIN measurements :
        LET m == measurements[i]
        IN  /\ m.state = "ZERO" => m.outcome = "blue"
            /\ m.state = "ONE" => m.outcome = "red"
            /\ m.state = "DECOHERED" => m.outcome = "yellow"
            /\ m.state \notin States => m.outcome = "blue"

C9_Witness ==
    /\ Len(measurements) = 2
    /\ \A i \in 1 .. 2 : measurements[i] = [state |-> "ONE", outcome |-> "red"]

\* C11: each measureState call takes exactly one draw from the randomness
\* source when its input is PLUS or MINUS, and none for every other input:
\* after any number of calls, the draws taken are as many as the calls made
\* on PLUS or MINUS.
C11_DrawsPerMeasurement ==
    Len(randoms) =
        Cardinality({i \in DOMAIN measurements : measurements[i].state \in {"PLUS", "MINUS"}})

C11_Witness ==
    /\ Len(measurements) = 2
    /\ measurements[1].state = "ZERO"
    /\ measurements[2].state = "PLUS"
    /\ Len(randoms) = 1

(***************************************************************************)
(* Properties of buildStepStates, checked under Spec.                      *)
(***************************************************************************)

\* C6: trajectory length.  For every initial value and every gate sequence
\* (absent slots included), buildStepStates returns Len(gates) + 1 elements.
C6_TrajectoryLength ==
    states # <<>> => Len(states) = Len(gates) + 1

C6_Witness ==
    /\ Len(gates) = 4 /\ Len(states) = 5
    /\ \E i \in DOMAIN gates : gates[i] = null

\* C7: monotone decoherence.  Once element i of a trajectory is DECOHERED,
\* every later element is DECOHERED, whatever gates follow.
C7_MonotoneDecoherence ==
    \A i, j \in DOMAIN states :
        (i < j /\ states[i] = "DECOHERED") => states[j] = "DECOHERED"

C7_Witness ==
    /\ Len(states) = 5
    /\ states[1] # "DECOHERED" /\ states[2] = "DECOHERED" /\ states[5] = "DECOHERED"
    /\ \E i \in 2 .. 4 : gates[i] \in {"X", "H", "Z"}

\* C8: trajectory construction.  Element 0 is ONE when initialState is
\* exactly ONE and ZERO for every other value; every later element is
\* applyGate of the element before it and the gate of that slot.
C8_TrajectoryConstruction ==
    states # <<>> =>
        /\ states[1] = IF initialState = "ONE" THEN "ONE" ELSE "ZERO"
        /\ \A i \in 2 .. Len(states) : states[i] = applyGate(states[i - 1], gates[i - 1])

C8_Witness ==
    /\ initialState = "PLUS"
    /\ Len(states) = 3 /\ states[1] = "ZERO" /\ states[2] = "PLUS" /\ states[3] = "MINUS"

\* C15: end-to-end scenario A.  From ZERO the sequence [H, Z, H, absent]
\* gives the trajectory [ZERO, PLUS, MINUS, ONE, ONE], and measuring its
\* final state gives red on every run.
C15_ScenarioA ==
    (initialState = "ZERO" /\ gates = <<"H", "Z", "H", null>> /\ states # <<>>) =>
        /\ states = <<"ZERO", "PLUS", "MINUS", "ONE", "ONE">>
        /\ \A i \in DOMAIN measurements : measurements[i].outcome = "red"

C15_Witness ==
    /\ initialState = "ZERO" /\ gates = <<"H", "Z", "H", null>>
    /\ states = <<"ZERO", "PLUS", "MINUS", "ONE", "ONE">>
    /\ measurements = <<[state |-> "ONE", outcome |-> "red"]>>

\* C16: end-to-end scenario C.  From ONE the sequence [NOISE, X, H, Z] gives
\* the trajectory [ONE, DECOHERED, DECOHERED, DECOHERED, DECOHERED], and
\* measuring its final state gives yellow.
C16_ScenarioC ==
    (initialState = "ONE" /\ gates = <<"NOISE", "X", "H", "Z">> /\ states # <<>>) =>
        /\ states = <<"ONE", "DECOHERED", "DECOHERED", "DECOHERED", "DECOHERED">>
        /\ \A i \in DOMAIN measurements : measurements[i].outcome = "yellow"

C16_Witness ==
    /\ initialState = "ONE" /\ gates = <<"NOISE", "X", "H", "Z">>
    /\ states = <<"ONE", "DECOHERED", "DECOHERED", "DECOHERED", "DECOHERED">>
    /\ measurements = <<[state |-> "DECOHERED", outcome |-> "yellow"]>>

\* C17: end-to-end scenario B.  From ZERO the sequence [X, X, absent, absent]
\* gives the trajectory [ZERO, ONE, ZERO, ZERO, ZERO]: the two X gates cancel
\* and the absent slots leave the state as it is.
C17_ScenarioB ==
    (initialState = "ZERO" /\ gates = <<"X", "X", null, null>> /\ states # <<>>) =>
        states = <<"ZERO", "ONE", "ZERO", "ZERO", "ZERO">>

C17_Witness ==
    /\ initialState = "ZERO" /\ gates = <<"X", "X", null, null>>
    /\ states = <<"ZERO", "ONE", "ZERO", "ZERO", "ZERO">>

\* C20: closure over the five states.  Every element of a trajectory built
\* from any initial value and any sequence over {X, H, Z, NOISE, absent} is
\* one of ZERO, ONE, PLUS, MINUS, DECOHERED.
C20_StateClosure ==
    (\A i \in DOMAIN gates : gates[i] \in {"X", "H", "Z", "NOISE", null}) =>
        \A i \in DOMAIN states : states[i] \in States

C20_Witness ==
    /\ initialState = "BOGUS"
    /\ gates = <<"H", "Z", "NOISE", null>>
    /\ states = <<"ZERO", "PLUS", "MINUS", "DECOHERED", "DECOHERED">>

\* C27: App's buildStepStates returns the shared buildStepStates result
\* followed by one more copy of its last element.
C27_EvaluatorsAgree ==
    states # <<>> =>
        /\ AppBuildStepStates(initialState, gates) = Append(states, states[Len(states)])
        /\ Len(AppBuildStepStates(initialState, gates)) = Len(gates) + 2

C27_Witness ==
    /\ states = <<"ZERO", "PLUS", "DECOHERED", "DECOHERED">>
    /\ AppBuildStepStates(initialState, gates)
          = <<"ZERO", "PLUS", "DECOHERED", "DECOHERED", "DECOHERED">>

(***************************************************************************)
(* Properties of repeated measurement, checked under SpecColumn.           *)
(***************************************************************************)

\* C10: measurement of a superposition.  When the final state of the column
\* is PLUS or MINUS, every measurement is blue or red (never yellow), and it
\* is not memoized: each buildColumnData call takes a fresh draw and its
\* outcome follows that draw, so two measurements of the same trajectory can
\* differ.
C10_SuperpositionMeasurement ==
    \A i \in DOMAIN columns :
        columns[i].finalState \in {"PLUS", "MINUS"} =>
            /\ columns[i].measurement \in {"blue", "red"}
            /\ Len(randoms) = Len(columns)
            /\ columns[i].measurement =
                  IF 2 * randoms[i] < RandomResolution THEN "blue" ELSE "red"

C10_Witness ==
    /\ Len(columns) = 2
    /\ columns[1].states = columns[2].states
    /\ columns[1].finalState \in {"PLUS", "MINUS"}
    /\ columns[1].measurement = "blue"
    /\ columns[2].measurement = "red"

====
